---------------------------- MODULE Spec2Model ----------------------------
(***************************************************************************)
(* KeyValueStore<T> (src/src/kvs/key_value_store.h): an in-memory map with *)
(* nested transactions kept as a stack of diffs over a committed base map. *)
(*                                                                         *)
(* A std::unordered_map is a function whose DOMAIN is the set of keys it   *)
(* holds.  A std::optional<T> is a sequence of length at most one: <<>> is *)
(* std::nullopt and <<v>> holds v.  The order in which an unordered_map is *)
(* iterated is unspecified, so every operation that returns a vector takes *)
(* the iteration order as an argument and the steps range over all orders. *)
(***************************************************************************)
EXTENDS Integers, Sequences, FiniteSets, TLC

\* Bounds of the model.
MaxDepth == 2
MaxRecords == 2
DeepDepth == 3

\* Show's default max_records.
DefaultMaxRecords == 100

\* The keys and the values of T the operations are called with.
KeySet == {"a", "b"}
ValueSet == {1, 2}

\* The values Set is called with where transactions nest to DeepDepth.
DeepValueSet == {1}

VARIABLES
    data_,          \* base store of committed data: key -> T
    transactions_,  \* stack of diffs, back() is the last: key -> optional<T>
    ret,            \* what the last call returned
    snap,           \* history: the visible state at the Begin of each open layer
    trace,          \* history: the calls since construction, while a scenario
    win,            \* history: the calls since the store was last idle
    balance,        \* history: Begin calls minus effective Commit/Rollback calls
    direct          \* history: a second store given the calls of a transaction directly

vars == <<data_, transactions_, ret, snap, trace, win, balance, direct>>

\* The object: its two data members.
this == [data_ |-> data_, transactions_ |-> transactions_]

--------------------------------------------------------------------------
\* std::optional and std::unordered_map

nullopt == <<>>
Some(v) == <<v>>
has_value(o) == Len(o) = 1
value(o) == o[1]

EmptyMap == [j \in {} |-> 0]

\* m[k] = x
Put(m, k, x) == [j \in DOMAIN m \cup {k} |-> IF j = k THEN x ELSE m[j]]

\* m.erase(k)
Erase(m, k) == [j \in DOMAIN m \ {k} |-> m[j]]

\* m.find(k): the mapped value as an optional
Find(m, k) == IF k \in DOMAIN m THEN Some(m[k]) ELSE nullopt

\* The orders in which a map with these keys may be iterated.
Orders(S) == {o \in [1..Cardinality(S) -> S] : \A i, j \in 1..Cardinality(S) : o[i] = o[j] => i = j}

--------------------------------------------------------------------------
\* BuildVisibleState

\* As ApplyDiff, without the erase: a nullopt entry leaves result as it is.
ApplyDiffSkipsErase(result, diff, todo) ==
    [j \in DOMAIN result \cup {k \in todo : has_value(diff[k])} |->
        IF j \in todo /\ has_value(diff[j]) THEN value(diff[j]) ELSE result[j]]

\* The inner loop: one diff applied to the running result, entry by entry.
RECURSIVE ApplyDiff(_, _, _)
ApplyDiff(result, diff, todo) ==
    IF todo = {} THEN result
    ELSE LET k == CHOOSE x \in todo : TRUE
             r == IF ~has_value(diff[k]) THEN Erase(result, k)
                  ELSE Put(result, k, value(diff[k]))
         IN  ApplyDiff(r, diff, todo \ {k})

\* The outer loop: the diffs from index i on, oldest first.
RECURSIVE ApplyFrom(_, _, _)
ApplyFrom(result, txs, i) ==
    IF i > Len(txs) THEN result
    ELSE ApplyFrom(ApplyDiff(result, txs[i], DOMAIN txs[i]), txs, i + 1)

BuildVisibleState(s) == ApplyFrom(s.data_, s.transactions_, 1)

--------------------------------------------------------------------------
\* Get, Set, Del

\* The reverse scan from layer i down, then the base store.
RECURSIVE GetFrom(_, _, _)
GetFrom(s, key, i) ==
    IF i = 0 THEN Find(s.data_, key)
    ELSE IF key \in DOMAIN s.transactions_[i]
         THEN (IF ~has_value(s.transactions_[i][key]) THEN nullopt
               ELSE s.transactions_[i][key])
         ELSE GetFrom(s, key, i - 1)

\* As Get, scanning from the outermost layer inwards.
GetOuterFirst(s, key) ==
    LET hit == {i \in 1..Len(s.transactions_) : key \in DOMAIN s.transactions_[i]}
    IN  IF hit = {} THEN Find(s.data_, key)
        ELSE s.transactions_[CHOOSE i \in hit : \A j \in hit : i <= j][key]

Get(s, key) == GetFrom(s, key, Len(s.transactions_))

\* As Set, with emplace_back() in place of back(): in a transaction the write
\* goes to a new diff pushed on the stack.
SetOpensLayer(s, key, val) ==
    IF s.transactions_ /= <<>>
    THEN [s EXCEPT !.transactions_ = Append(@, Put(EmptyMap, key, Some(val)))]
    ELSE [s EXCEPT !.data_ = Put(@, key, val)]

\* As Set, writing to data_ whether or not a transaction is open.
SetAlwaysBase(s, key, val) == [s EXCEPT !.data_ = Put(@, key, val)]

Set(s, key, val) ==
    IF s.transactions_ /= <<>>
    THEN [s EXCEPT !.transactions_[Len(s.transactions_)] = Put(@, key, Some(val))]
    ELSE [s EXCEPT !.data_ = Put(@, key, val)]

\* As Del, erasing the key from the topmost diff instead of recording nullopt.
DelErasesFromLayer(s, key) ==
    IF s.transactions_ /= <<>>
    THEN [s EXCEPT !.transactions_[Len(s.transactions_)] = Erase(@, key)]
    ELSE [s EXCEPT !.data_ = Erase(@, key)]

\* As Del, erasing from data_ through find() without the check for end(): on
\* a key data_ does not hold the map is corrupted (here: emptied).
DelUncheckedErase(s, key) ==
    IF s.transactions_ /= <<>>
    THEN [s EXCEPT !.transactions_[Len(s.transactions_)] = Put(@, key, nullopt)]
    ELSE IF key \in DOMAIN s.data_ THEN [s EXCEPT !.data_ = Erase(@, key)]
         ELSE [s EXCEPT !.data_ = EmptyMap]

\* As Del, erasing the key from data_ whether or not a transaction is open.
DelAlwaysBase(s, key) == [s EXCEPT !.data_ = Erase(@, key)]

Del(s, key) ==
    IF s.transactions_ /= <<>>
    THEN [s EXCEPT !.transactions_[Len(s.transactions_)] = Put(@, key, nullopt)]
    ELSE [s EXCEPT !.data_ = Erase(@, key)]

--------------------------------------------------------------------------
\* Begin, Commit, Rollback

pop_back(txs) == SubSeq(txs, 1, Len(txs) - 1)

Begin(s) == [s EXCEPT !.transactions_ = Append(@, EmptyMap)]

\* As MergeBelow, treating a nullopt entry as the merge into data_ does: the
\* key is erased from below_diff.
MergeBelowErases(below_diff, top_diff, todo) ==
    [j \in (DOMAIN below_diff \cup {k \in todo : has_value(top_diff[k])})
              \ {k \in todo : ~has_value(top_diff[k])} |->
        IF j \in todo THEN top_diff[j] ELSE below_diff[j]]

\* As MergeBelow, with insert() in place of the assignment: a key below_diff
\* holds keeps its entry.
MergeBelowInsert(below_diff, top_diff, todo) ==
    [j \in DOMAIN below_diff \cup todo |->
        IF j \in DOMAIN below_diff THEN below_diff[j] ELSE top_diff[j]]

\* below_diff[kv.first] = kv.second, for every entry of top_diff
RECURSIVE MergeBelow(_, _, _)
MergeBelow(below_diff, top_diff, todo) ==
    IF todo = {} THEN below_diff
    ELSE LET k == CHOOSE x \in todo : TRUE
         IN  MergeBelow(Put(below_diff, k, top_diff[k]), top_diff, todo \ {k})

\* As MergeBase, with insert() in place of the assignment: a key data_ holds
\* keeps its value.
MergeBaseInsert(data, top_diff, todo) ==
    [j \in (DOMAIN data \cup {k \in todo : has_value(top_diff[k])})
              \ {k \in todo : ~has_value(top_diff[k])} |->
        IF j \in DOMAIN data THEN data[j] ELSE value(top_diff[j])]

\* erase or assign in data_, for every entry of top_diff
RECURSIVE MergeBase(_, _, _)
MergeBase(data, top_diff, todo) ==
    IF todo = {} THEN data
    ELSE LET k == CHOOSE x \in todo : TRUE
             d == IF ~has_value(top_diff[k]) THEN Erase(data, k)
                  ELSE Put(data, k, value(top_diff[k]))
         IN  MergeBase(d, top_diff, todo \ {k})

\* As Commit, without the merge into the diff below, and without the
\* pop_back when the topmost diff is the only one.
CommitKeepsLayer(s) ==
    IF s.transactions_ = <<>> THEN s
    ELSE IF Len(s.transactions_) > 1
         THEN [s EXCEPT !.transactions_ = pop_back(@)]
         ELSE [s EXCEPT !.data_ = MergeBase(@, s.transactions_[1], DOMAIN s.transactions_[1])]

\* As Commit, merging into data_ at every depth.
CommitBaseEarly(s) ==
    IF s.transactions_ = <<>> THEN s
    ELSE LET top_diff == s.transactions_[Len(s.transactions_)]
         IN  [data_ |-> MergeBase(s.data_, top_diff, DOMAIN top_diff),
              transactions_ |-> pop_back(s.transactions_)]

Commit(s) ==
    IF s.transactions_ = <<>> THEN s
    ELSE LET top_diff == s.transactions_[Len(s.transactions_)]
             popped == pop_back(s.transactions_)
         IN  IF popped /= <<>>
             THEN [s EXCEPT !.transactions_ =
                      [popped EXCEPT ![Len(popped)] = MergeBelow(@, top_diff, DOMAIN top_diff)]]
             ELSE [data_ |-> MergeBase(s.data_, top_diff, DOMAIN top_diff),
                   transactions_ |-> popped]

\* As Rollback, merging the discarded diff as Commit does.
RollbackMerges(s) == Commit(s)

\* As Rollback, without the early return: the call on an empty stack
\* corrupts the object (here: data_ is lost).
RollbackUnguarded(s) ==
    IF s.transactions_ = <<>> THEN [s EXCEPT !.data_ = EmptyMap]
    ELSE [s EXCEPT !.transactions_ = pop_back(@)]

Rollback(s) ==
    IF s.transactions_ = <<>> THEN s
    ELSE [s EXCEPT !.transactions_ = pop_back(@)]

--------------------------------------------------------------------------
\* Keys, Values, Show, Count: each builds the visible state and walks it in
\* the map's iteration order, given as order (an element of Orders).

\* As AfterConst, had BuildVisibleState folded the diffs into data_ itself
\* and not into a copy of it.
AfterFoldInPlace(s) == [s EXCEPT !.data_ = BuildVisibleState(s)]

\* The object after a call of a const method: Get, Keys, Values, Show, Count
\* and BuildVisibleState are const, result is a copy of data_.
AfterConst(s) == s

RECURSIVE KeysLoop(_, _, _, _)
KeysLoop(state, with_value, order, i) ==
    IF i > Len(order) THEN <<>>
    ELSE LET k == order[i]
             take == IF has_value(with_value) THEN state[k] = value(with_value) ELSE TRUE
         IN  (IF take THEN <<k>> ELSE <<>>) \o KeysLoop(state, with_value, order, i + 1)

Keys(s, with_value, order) == KeysLoop(BuildVisibleState(s), with_value, order, 1)

Values(s, order) ==
    LET state == BuildVisibleState(s)
    IN  [i \in 1..Len(order) |-> state[order[i]]]

Show(s, max_records, order) ==
    LET state == BuildVisibleState(s)
        n == IF Len(order) < max_records THEN Len(order) ELSE max_records
    IN  [i \in 1..n |-> <<order[i], state[order[i]]>>]

RECURSIVE CountLoop(_, _, _, _)
CountLoop(state, with_value, order, i) ==
    IF i > Len(order) THEN 0
    ELSE (IF state[order[i]] = value(with_value) THEN 1 ELSE 0)
         + CountLoop(state, with_value, order, i + 1)

\* As Count, returning state.size() whatever with_value is.
CountIgnoresFilter(s, with_value, order) == Cardinality(DOMAIN BuildVisibleState(s))

Count(s, with_value, order) ==
    LET state == BuildVisibleState(s)
    IN  IF ~has_value(with_value) THEN Cardinality(DOMAIN state)
        ELSE CountLoop(state, with_value, order, 1)

--------------------------------------------------------------------------
\* The calls, as the history variables record them.

Call(name, key, val) == [op |-> name, key |-> key, val |-> val]
CallSet(k, v) == Call("Set", k, Some(v))
CallDel(k) == Call("Del", k, nullopt)
CallBegin == Call("Begin", "", nullopt)
CallCommit == Call("Commit", "", nullopt)
CallRollback == Call("Rollback", "", nullopt)

IsPrefix(p, q) == Len(p) <= Len(q) /\ SubSeq(q, 1, Len(p)) = p

\* The two call sequences of the nested-transaction scenarios, on key k.
ShadowScript(k) ==
    <<CallSet(k, 1), CallBegin, CallSet(k, 2), CallBegin, CallDel(k), CallRollback, CallRollback>>
MergeScript(k) ==
    <<CallSet(k, 1), CallBegin, CallDel(k), CallBegin, CallSet(k, 2), CallCommit, CallRollback>>
\* A call sequence with three Begin calls, one Commit of an open transaction
\* and one Rollback with none open.
AccountScript(k) ==
    <<CallRollback, CallBegin, CallBegin, CallCommit, CallSet(k, 1), CallBegin>>
\* Three nested transactions on keys k and j, the innermost committed.
DeepMergeScript(k, j) ==
    <<CallSet(k, 1), CallBegin, CallSet(j, 1), CallBegin, CallSet(k, 1), CallSet(j, 1),
      CallBegin, CallDel(k), CallCommit>>
\* The same Set called twice in a transaction.
RepeatScript(k) == <<CallSet(k, 1), CallBegin, CallSet(k, 2), CallSet(k, 2)>>
FreshScripts ==
    {ShadowScript(k) : k \in KeySet} \cup {MergeScript(k) : k \in KeySet}
        \cup {AccountScript(k) : k \in KeySet}
        \cup {RepeatScript(k) : k \in KeySet}
        \cup {DeepMergeScript(k, j) : k \in KeySet, j \in KeySet}

\* The call sequences followed from an idle store.
FlattenScript(k, v) == <<CallBegin, CallSet(k, v), CallCommit>>
UndoScript(k, v) == <<CallBegin, CallSet(k, v), CallBegin, CallDel(k), CallCommit, CallRollback>>
MissingDelScript(k) == <<CallBegin, CallDel(k)>>
NestedCommitScript(k, v) == <<CallBegin, CallSet(k, v), CallBegin, CallDel(k), CallCommit, CallCommit>>
OuterMergeScript(k, j, v) == <<CallBegin, CallDel(k), CallSet(j, v), CallCommit>>
IdleScripts ==
    {FlattenScript(k, v) : k \in KeySet, v \in ValueSet}
        \cup {UndoScript(k, v) : k \in KeySet, v \in ValueSet}
        \cup {MissingDelScript(k) : k \in KeySet}
        \cup {NestedCommitScript(k, v) : k \in KeySet, v \in ValueSet}
        \cup {OuterMergeScript(k, j, v) : k \in KeySet, j \in KeySet, v \in ValueSet}
        \cup {<<CallCommit>>, <<CallRollback>>}

Off == [live |-> FALSE, calls |-> <<>>, base |-> EmptyMap]

\* trace: every call since construction, for as long as they follow a scenario.
TraceAfter(c) ==
    IF trace.live /\ \E q \in FreshScripts : IsPrefix(Append(trace.calls, c), q)
    THEN [trace EXCEPT !.calls = Append(@, c)]
    ELSE Off

\* win: the calls since the store was last idle (with the base store it had
\* then), for as long as they follow one of IdleScripts.
WinAfter(c) ==
    LET sofar == IF transactions_ = <<>> THEN <<>> ELSE win.calls
        base == IF transactions_ = <<>> THEN data_ ELSE win.base
    IN  IF (transactions_ = <<>> \/ win.live)
           /\ \E q \in IdleScripts : IsPrefix(Append(sofar, c), q)
        THEN [live |-> TRUE, calls |-> Append(sofar, c), base |-> base]
        ELSE Off

\* snap: one visible state per open layer, taken when its Begin was called.
SnapAfter(c) ==
    IF c.op = "Begin" THEN Append(snap, BuildVisibleState(this))
    ELSE IF c.op \in {"Commit", "Rollback"} /\ snap /= <<>> THEN pop_back(snap)
    ELSE snap

\* balance: +1 for a Begin call, -1 for a Commit or Rollback call made while
\* a transaction is open.
BalanceAfter(c) ==
    IF c.op = "Begin" THEN balance + 1
    ELSE IF c.op \in {"Commit", "Rollback"} /\ transactions_ /= <<>> THEN balance - 1
    ELSE balance

\* direct: a store with no transaction open.  It starts as a copy of the base
\* store at a Begin called on an idle store, and is given each Set and Del
\* called from then on, until as many Commit calls as Begin calls have been
\* made (open counts the difference) or a Rollback is called; the Begin and
\* Commit calls are not passed on to it.
NoDirect == [live |-> FALSE, open |-> 0, data |-> EmptyMap]
DirectAfter(c) ==
    LET d == [data_ |-> direct.data, transactions_ |-> <<>>]
        running == direct.live /\ direct.open > 0
    IN  IF ~running
        THEN (IF transactions_ = <<>> /\ c.op = "Begin"
              THEN [live |-> TRUE, open |-> 1, data |-> data_]
              ELSE NoDirect)
        ELSE IF c.op = "Rollback" THEN NoDirect
        ELSE IF c.op = "Set" THEN [direct EXCEPT !.data = Set(d, c.key, value(c.val)).data_]
        ELSE IF c.op = "Del" THEN [direct EXCEPT !.data = Del(d, c.key).data_]
        ELSE IF c.op = "Begin" THEN [direct EXCEPT !.open = @ + 1]
        ELSE [direct EXCEPT !.open = @ - 1]

\* ret is <<method, returned value>>; a method returning void leaves Void.
Void == <<"void", <<>>>>

--------------------------------------------------------------------------
\* The steps: one per public method.

\* A mutating call c leaves the object as s.  A call is made once the caller
\* has taken what the call before it returned.
Mutate(s, c) ==
    /\ ret[1] = "void"
    /\ data_' = s.data_
    /\ transactions_' = s.transactions_
    /\ ret' = Void
    /\ snap' = SnapAfter(c)
    /\ trace' = TraceAfter(c)
    /\ win' = WinAfter(c)
    /\ balance' = BalanceAfter(c)
    /\ UNCHANGED direct

\* The same call, with the second store kept beside the object.
MutateBoth(s, c) ==
    /\ ret[1] = "void"
    /\ data_' = s.data_
    /\ transactions_' = s.transactions_
    /\ ret' = Void
    /\ snap' = SnapAfter(c)
    /\ trace' = TraceAfter(c)
    /\ win' = WinAfter(c)
    /\ balance' = BalanceAfter(c)
    /\ direct' = DirectAfter(c)

\* A const call returns r.
Return(name, r) ==
    /\ ret[1] = "void"
    /\ data_' = AfterConst(this).data_
    /\ transactions_' = AfterConst(this).transactions_
    /\ UNCHANGED <<snap, trace, win, balance, direct>>
    /\ ret' = <<name, r>>

VisibleOrders == Orders(DOMAIN BuildVisibleState(this))
Filters == {nullopt} \cup {Some(v) : v \in ValueSet}

SetStep == \E k \in KeySet, v \in ValueSet : Mutate(Set(this, k, v), CallSet(k, v))
DelStep == \E k \in KeySet : Mutate(Del(this, k), CallDel(k))
BeginStep == Len(transactions_) < MaxDepth /\ Mutate(Begin(this), CallBegin)
CommitStep == Mutate(Commit(this), CallCommit)
RollbackStep == Mutate(Rollback(this), CallRollback)
GetStep == \E k \in KeySet : Return("Get", <<k, Get(this, k)>>)
KeysStep == \E f \in Filters, o \in VisibleOrders : Return("Keys", Keys(this, f, o))
ValuesStep == \E o \in VisibleOrders : Return("Values", Values(this, o))
CountStep == \E f \in Filters, o \in VisibleOrders : Return("Count", <<Count(this, f, o)>>)
ShowStep == \E n \in 0..MaxRecords \cup {DefaultMaxRecords}, o \in VisibleOrders : Return("Show", Show(this, n, o))

\* The caller takes the returned value.
TakeResult == ret[1] /= "void" /\ ret' = Void /\ UNCHANGED <<data_, transactions_, snap, trace, win, balance, direct>>

Init ==
    /\ data_ = EmptyMap
    /\ transactions_ = <<>>
    /\ ret = Void
    /\ snap = <<>>
    /\ trace = [live |-> TRUE, calls |-> <<>>, base |-> EmptyMap]
    /\ win = Off
    /\ balance = 0
    /\ direct = NoDirect

\* The calls that change the store.
Next ==
    \/ SetStep
    \/ DelStep
    \/ BeginStep
    \/ CommitStep
    \/ RollbackStep

\* Every public method, and the caller taking what a const method returned.
NextCalls ==
    \/ SetStep
    \/ DelStep
    \/ BeginStep
    \/ CommitStep
    \/ RollbackStep
    \/ GetStep
    \/ KeysStep
    \/ ValuesStep
    \/ CountStep
    \/ ShowStep
    \/ TakeResult

Spec == Init /\ [][Next]_vars

SpecCalls == Init /\ [][NextCalls]_vars

\* The calls that change the store, with transactions nesting to DeepDepth
\* and Set called with the values of DeepValueSet.
DeepSetStep == \E k \in KeySet, v \in DeepValueSet : Mutate(Set(this, k, v), CallSet(k, v))
DeepBeginStep == Len(transactions_) < DeepDepth /\ Mutate(Begin(this), CallBegin)

NextDeep ==
    \/ DeepSetStep
    \/ DelStep
    \/ DeepBeginStep
    \/ CommitStep
    \/ RollbackStep

SpecDeep == Init /\ [][NextDeep]_vars

\* The calls that change the store, each Set and Del of a transaction given
\* to the second store as well.
SetBothStep == \E k \in KeySet, v \in ValueSet : MutateBoth(Set(this, k, v), CallSet(k, v))
DelBothStep == \E k \in KeySet : MutateBoth(Del(this, k), CallDel(k))
BeginBothStep == Len(transactions_) < MaxDepth /\ MutateBoth(Begin(this), CallBegin)
CommitBothStep == MutateBoth(Commit(this), CallCommit)
RollbackBothStep == MutateBoth(Rollback(this), CallRollback)

NextBoth ==
    \/ SetBothStep
    \/ DelBothStep
    \/ BeginBothStep
    \/ CommitBothStep
    \/ RollbackBothStep

SpecBoth == Init /\ [][NextBoth]_vars

--------------------------------------------------------------------------
\* Properties

Depth == Len(transactions_)

\* C1: visibility equivalence.  In every reachable state and for every key,
\* Get (the scan from the innermost layer outwards, then the base store)
\* returns what the key has in the state BuildVisibleState folds together.
C1_VisibilityEquivalence ==
    \A k \in KeySet : Get(this, k) = Find(BuildVisibleState(this), k)

\* A value in the base store, another in the outer layer, a tombstone in the
\* inner layer.
C1_Witness ==
    \E k \in KeySet :
        /\ Depth = 2
        /\ k \in DOMAIN data_ /\ data_[k] = 1
        /\ k \in DOMAIN transactions_[1] /\ transactions_[1][k] = Some(2)
        /\ k \in DOMAIN transactions_[2] /\ transactions_[2][k] = nullopt

\* C2: Rollback is a pure undo.  A Rollback with a transaction open leaves the
\* visible state as it was when that transaction's Begin was called, whatever
\* Set, Del and nested, closed transactions came in between; Get returns for
\* every key what it returned then.
C2_RollbackIsUndo ==
    [][(RollbackStep /\ Depth >= 1) =>
          /\ BuildVisibleState(this)' = snap[Len(snap)]
          /\ \A k \in KeySet : Get(this, k)' = Find(snap[Len(snap)], k)]_vars

\* From an idle store holding k: Begin, Set(k), a nested Begin Del(k) Commit,
\* then Rollback.
C2_Witness ==
    \E k \in KeySet, v \in ValueSet :
        /\ win.live /\ win.calls = UndoScript(k, v)
        /\ k \in DOMAIN win.base /\ win.base[k] /= v

\* C3: a Rollback at depth n >= 1 removes the innermost layer and nothing
\* else: depth becomes n - 1, the layers 1..n-1 and the base store are as
\* they were.
C3_RollbackFrame ==
    [][(RollbackStep /\ Depth >= 1) =>
          /\ data_' = data_
          /\ Len(transactions_') = Depth - 1
          /\ \A i \in 1..(Depth - 1) : transactions_'[i] = transactions_[i]]_vars

\* The first Rollback of the shadowing scenario: it is made at depth 2, over
\* a layer and a base store that both hold the key.
C3_Witness ==
    \E k \in KeySet :
        /\ trace.live /\ trace.calls = SubSeq(ShadowScript(k), 1, 6)
        /\ Depth = 1 /\ transactions_[1] /= EmptyMap /\ data_ /= EmptyMap

\* C4: commit flattening.  From any idle state, Begin, Set(k, v), Commit
\* leaves the store that a Set(k, v) made with no transaction open leaves,
\* and Get(k) returns v.
C4_CommitFlattening ==
    \A k \in KeySet, v \in ValueSet :
        (win.live /\ win.calls = FlattenScript(k, v)) =>
            /\ this = Set([data_ |-> win.base, transactions_ |-> <<>>], k, v)
            /\ transactions_ = <<>>
            /\ Get(this, k) = Some(v)

\* The three calls made on a base store that held another value for k, and
\* another key.
C4_Witness ==
    \E k \in KeySet, v \in ValueSet :
        /\ win.live /\ win.calls = FlattenScript(k, v)
        /\ DOMAIN win.base = KeySet /\ win.base[k] /= v

\* C5: a Commit or a Rollback called with no transaction open changes
\* nothing: the base store is as it was and the diff stack is still empty.
C5_UnmatchedCloseNoOp ==
    (win.live /\ win.calls \in {<<CallCommit>>, <<CallRollback>>}) =>
        (data_ = win.base /\ transactions_ = <<>>)

\* A Rollback called on an idle store that holds every key.
C5_Witness ==
    win.live /\ win.calls = <<CallRollback>> /\ DOMAIN win.base = KeySet

\* C6: Count and filter agree.  In every reachable state and for every value
\* v, Count(v) is the length of Keys(v), and both are the number of keys whose
\* visible value is v, which is the number of keys k with Get(k) = v.
C6_CountFilterConsistency ==
    LET state == BuildVisibleState(this)
    IN  \A v \in ValueSet :
            LET n == Cardinality({k \in DOMAIN state : state[k] = v})
            IN  /\ n = Cardinality({k \in KeySet : Get(this, k) = Some(v)})
                /\ \A o \in Orders(DOMAIN state) :
                       /\ Count(this, Some(v), o) = n
                       /\ Len(Keys(this, Some(v), o)) = n

\* Both keys hold 1 in the base store; an open layer deletes one of them and
\* sets the other to 2.
C6_Witness ==
    /\ Depth >= 1
    /\ DOMAIN data_ = KeySet /\ \A k \in KeySet : data_[k] = 1
    /\ \E k \in KeySet : Get(this, k) = nullopt
    /\ \E k \in KeySet : Get(this, k) = Some(2)

\* C7: nested shadowing.  On a fresh store, after Set(k, 1), Begin, Set(k, 2),
\* Begin, Del(k), Get(k) returns absent; after one Rollback it returns 2;
\* after another Rollback it returns 1.
C7_NestedShadowing ==
    \A k \in KeySet :
        trace.live =>
            /\ trace.calls = SubSeq(ShadowScript(k), 1, 5) => Get(this, k) = nullopt
            /\ trace.calls = SubSeq(ShadowScript(k), 1, 6) => Get(this, k) = Some(2)
            /\ trace.calls = ShadowScript(k) => Get(this, k) = Some(1)

\* The whole scenario has run.
C7_Witness ==
    \E k \in KeySet : trace.live /\ trace.calls = ShadowScript(k)

\* C8: merge, then discard.  On a fresh store, after Set(k, 1), Begin, Del(k),
\* Begin, Set(k, 2), Commit the one remaining layer holds k -> 2 and Get(k)
\* returns 2; after the Rollback that follows, Get(k) returns 1 and the base
\* store still holds k -> 1.
C8_MergeThenDiscard ==
    \A k \in KeySet :
        trace.live =>
            /\ trace.calls = SubSeq(MergeScript(k), 1, 6) =>
                   /\ Depth = 1
                   /\ DOMAIN transactions_[1] = {k} /\ transactions_[1][k] = Some(2)
                   /\ Get(this, k) = Some(2)
            /\ trace.calls = MergeScript(k) =>
                   /\ Get(this, k) = Some(1)
                   /\ DOMAIN data_ = {k} /\ data_[k] = 1
                   /\ Depth = 0

\* The whole scenario has run.
C8_Witness ==
    \E k \in KeySet : trace.live /\ trace.calls = MergeScript(k)

\* Get, Keys, Values, Count or Show is called.
ReadStep == GetStep \/ KeysStep \/ ValuesStep \/ CountStep \/ ShowStep

\* C9: the base store changes only in a Set or Del called with the diff
\* stack empty, or in a Commit called at depth 1.  Begin, Rollback, the read
\* calls, Set and Del at depth >= 1 and Commit at any other depth leave it as
\* it was.
C9_BaseStoreFrame ==
    [][data_' /= data_ =>
          /\ \/ Depth = 0 /\ (SetStep \/ DelStep)
             \/ Depth = 1 /\ CommitStep
          /\ ~(BeginStep \/ RollbackStep \/ ReadStep)
          /\ ~(Depth >= 1 /\ (SetStep \/ DelStep))
          /\ ~(Depth /= 1 /\ CommitStep)]_vars

\* The Commit of the merge scenario, called at depth 2 over a base store that
\* holds k -> 1 while the committed layer holds k -> 2.
C9_Witness ==
    \E k \in KeySet :
        /\ trace.live /\ trace.calls = SubSeq(MergeScript(k), 1, 6)
        /\ k \in DOMAIN data_ /\ data_[k] = 1

\* C10: depth accounting.  Begin appends one empty layer; Commit and Rollback
\* at depth n >= 1 remove the innermost layer, leaving depth n - 1, and no
\* layer below the one they merge into changes; Set, Del and the read calls
\* keep the depth.  So the depth is always the number of Begin calls minus
\* the number of Commit and Rollback calls made with a transaction open, and
\* is never negative.
C10_DepthAccounting ==
    /\ [](Depth = balance /\ balance >= 0)
    /\ [][/\ BeginStep => transactions_' = Append(transactions_, EmptyMap)
          /\ ((CommitStep \/ RollbackStep) /\ Depth >= 1) =>
                 /\ Len(transactions_') = Depth - 1
                 /\ \A i \in 1..(Depth - 2) : transactions_'[i] = transactions_[i]
          /\ Len(transactions_') /= Depth => ~(SetStep \/ DelStep \/ ReadStep)]_vars

\* Three Begin calls, one effective Commit and one Rollback that found no
\* transaction open: two transactions are open.
C10_Witness ==
    \E k \in KeySet :
        trace.live /\ trace.calls = AccountScript(k) /\ Depth = 2 /\ balance = 2

\* C11: Set(k, v) at depth n >= 1 writes k -> v into the innermost layer and
\* nothing else: the base store, the layers 1..n-1 and the other keys of the
\* innermost layer are as they were; at depth 0 it writes k -> v into the
\* base store and changes no other key.  Afterwards Get(k) returns v and
\* Get(j) is unchanged for every other key j.
C11_SetFrame ==
    [][\A k \in KeySet, v \in ValueSet :
          Mutate(Set(this, k, v), CallSet(k, v)) =>
              /\ Depth >= 1 =>
                     /\ data_' = data_
                     /\ Len(transactions_') = Depth
                     /\ \A i \in 1..(Depth - 1) : transactions_'[i] = transactions_[i]
                     /\ DOMAIN transactions_'[Depth] = DOMAIN transactions_[Depth] \cup {k}
                     /\ transactions_'[Depth][k] = Some(v)
                     /\ \A j \in DOMAIN transactions_[Depth] \ {k} :
                            transactions_'[Depth][j] = transactions_[Depth][j]
              /\ Depth = 0 =>
                     /\ transactions_' = <<>>
                     /\ DOMAIN data_' = DOMAIN data_ \cup {k}
                     /\ data_'[k] = v
                     /\ \A j \in DOMAIN data_ \ {k} : data_'[j] = data_[j]
              /\ Get(this, k)' = Some(v)
              /\ \A j \in KeySet \ {k} : Get(this, j)' = Get(this, j)]_vars

\* The Set(k, 2) of the merge scenario: made at depth 2, over an outer layer
\* that holds a tombstone for k and a base store that holds k -> 1.
C11_Witness ==
    \E k \in KeySet :
        /\ trace.live /\ trace.calls = SubSeq(MergeScript(k), 1, 5)
        /\ Depth = 2 /\ transactions_[1] /= EmptyMap /\ data_ /= EmptyMap

\* C12: Del(k) at depth n >= 1 records a tombstone for k in the innermost
\* layer.  Afterwards Get(k) returns absent and k is not in the visible
\* state, whatever the outer layers and the base store hold for k; those are
\* as they were.
C12_DelTombstone ==
    [][\A k \in KeySet :
          (Depth >= 1 /\ Mutate(Del(this, k), CallDel(k))) =>
              /\ Len(transactions_') = Depth
              /\ k \in DOMAIN transactions_'[Depth]
              /\ transactions_'[Depth][k] = nullopt
              /\ Get(this, k)' = nullopt
              /\ k \notin DOMAIN BuildVisibleState(this)'
              /\ data_' = data_
              /\ \A i \in 1..(Depth - 1) : transactions_'[i] = transactions_[i]]_vars

\* The Del(k) of the shadowing scenario: the outer layer holds k -> 2 and the
\* base store holds k -> 1.
C12_Witness ==
    \E k \in KeySet :
        /\ trace.live /\ trace.calls = SubSeq(ShadowScript(k), 1, 5)
        /\ transactions_[1][k] = Some(2) /\ data_[k] = 1

\* C13: Del of a key that is not in the visible state leaves the visible
\* state as it was, and Get returns for every key what it returned before;
\* with the diff stack empty it leaves the base store as it was and the diff
\* stack empty.
C13_DelMissingNoOp ==
    [][\A k \in KeySet :
          (k \notin DOMAIN BuildVisibleState(this) /\ Mutate(Del(this, k), CallDel(k))) =>
              /\ BuildVisibleState(this)' = BuildVisibleState(this)
              /\ \A j \in KeySet : Get(this, j)' = Get(this, j)
              /\ Depth = 0 => (data_' = data_ /\ transactions_' = <<>>)]_vars

\* From an idle store that holds the other key only: Begin, then Del(k).
C13_Witness ==
    \E k \in KeySet :
        /\ win.live /\ win.calls = MissingDelScript(k)
        /\ k \notin DOMAIN win.base /\ win.base /= EmptyMap

\* C14: Set is idempotent.  From every reachable state, Set(k, v) called
\* twice leaves the base store, the diff stack and so the visible state that
\* one Set(k, v) leaves.
C14_SetIdempotent ==
    /\ \A k \in KeySet, v \in ValueSet :
           LET once == Set(this, k, v)
               twice == Set(once, k, v)
           IN  /\ twice.data_ = once.data_
               /\ twice.transactions_ = once.transactions_
               /\ BuildVisibleState(twice) = BuildVisibleState(once)
    /\ \A k \in KeySet :
           (trace.live /\ trace.calls = RepeatScript(k)) =>
               this = Set([data_ |-> Put(EmptyMap, k, 1), transactions_ |-> <<EmptyMap>>], k, 2)

\* Set(k, 2) was called twice in a transaction over a base store holding k.
C14_Witness ==
    \E k \in KeySet : trace.live /\ trace.calls = RepeatScript(k) /\ Depth = 1

\* The names of the const methods.
ReadNames == {"Get", "Keys", "Values", "Count", "Show"}

\* k is in no layer and not in the base store.
Untouched(k) ==
    k \notin DOMAIN data_ /\ \A i \in 1..Depth : k \notin DOMAIN transactions_[i]

\* C15: Get, Keys, Values, Count (and Show) have no side effects.  Whatever
\* key or filter they are called with, the base store and every layer of the
\* diff stack are afterwards as they were, and Get of a key that is in no
\* layer and not in the base store returns the empty optional.
C15_ReadsHaveNoSideEffects ==
    [][(ret[1] = "void" /\ ret'[1] \in ReadNames) =>
          /\ data_' = data_
          /\ transactions_' = transactions_
          /\ \A k \in KeySet :
                 (Untouched(k) /\ ret'[1] = "Get" /\ ret'[2][1] = k) => ret'[2] = <<k, nullopt>>]_vars

\* Get has returned the empty optional for a key found nowhere, with a
\* transaction open over a base store, both holding the other key.
C15_Witness ==
    \E k \in KeySet :
        /\ ret = <<"Get", <<k, nullopt>>>>
        /\ Untouched(k)
        /\ Depth >= 1 /\ data_ /= EmptyMap /\ transactions_[Depth] /= EmptyMap

\* C16: nested commit merge.  Commit at depth n >= 2 pops layer n and leaves
\* as layer n - 1 the old layer n - 1 overridden by the old layer n: a key
\* of layer n has layer n's entry as it was, a tombstone staying a tombstone,
\* and a key of layer n - 1 alone keeps its entry.  The layers 1..n-2 and
\* the base store are as they were.
C16_NestedCommitMerge ==
    [][(CommitStep /\ Depth >= 2) =>
          LET n == Depth
              top == transactions_[n]
              below == transactions_[n - 1]
          IN  /\ Len(transactions_') = n - 1
              /\ DOMAIN transactions_'[n - 1] = DOMAIN below \cup DOMAIN top
              /\ \A k \in DOMAIN top : transactions_'[n - 1][k] = top[k]
              /\ \A k \in DOMAIN below \ DOMAIN top : transactions_'[n - 1][k] = below[k]
              /\ \A i \in 1..(n - 2) : transactions_'[i] = transactions_[i]
              /\ data_' = data_]_vars

\* A Commit at depth 3: layer 3 held a tombstone for k, layer 2 held values
\* for k and j, layer 1 holds j and the base store holds k.
C16_Witness ==
    \E k \in KeySet : \E j \in KeySet \ {k} :
        /\ trace.live /\ trace.calls = DeepMergeScript(k, j)
        /\ Depth = 2
        /\ transactions_[2][k] = nullopt /\ transactions_[2][j] = Some(1)
        /\ transactions_[1] /= EmptyMap /\ data_ /= EmptyMap

\* C17: outermost commit merge.  Commit at depth 1 leaves the diff stack
\* empty, and the base store is the old one with every tombstoned key of the
\* layer erased, every valued key of the layer set to that value, and every
\* other key as it was; a tombstone for a key the base store lacks changes
\* nothing for that key.
C17_OutermostCommitMerge ==
    [][(CommitStep /\ Depth = 1) =>
          LET top == transactions_[1]
          IN  /\ transactions_' = <<>>
              /\ \A k \in KeySet :
                     Find(data_', k) = IF k \notin DOMAIN top THEN Find(data_, k)
                                       ELSE IF has_value(top[k]) THEN Some(value(top[k]))
                                       ELSE nullopt]_vars

\* A Commit at depth 1 of a layer holding a tombstone for a key of the base
\* store and another value for a second key of the base store.
C17_Witness ==
    \E k \in KeySet, v \in ValueSet : \E j \in KeySet \ {k} :
        /\ win.live /\ win.calls = OuterMergeScript(k, j, v)
        /\ DOMAIN win.base = KeySet /\ win.base[j] /= v
        /\ transactions_ = <<>>
        /\ DOMAIN data_ = {j} /\ data_[j] = v

\* C18: unfiltered enumeration matches the visible state.  In every
\* reachable state and for every iteration order, Keys() holds each key that
\* Get reports present exactly once and no other key, Values() holds one
\* value per present key (each value as often as present keys hold it), and
\* Count() is the length of Keys() and of Values().
C18_EnumerationMatchesVisible ==
    \A o \in VisibleOrders :
        LET keys == Keys(this, nullopt, o)
            values == Values(this, o)
        IN  /\ \A k \in KeySet :
                   Cardinality({i \in 1..Len(keys) : keys[i] = k})
                       = IF has_value(Get(this, k)) THEN 1 ELSE 0
            /\ \A v \in ValueSet :
                   Cardinality({i \in 1..Len(values) : values[i] = v})
                       = Cardinality({k \in KeySet : Get(this, k) = Some(v)})
            /\ \A i \in 1..Len(values) : values[i] \in ValueSet
            /\ Count(this, nullopt, o) = Len(keys)
            /\ Count(this, nullopt, o) = Len(values)

\* The base store holds both keys; open layers delete one of them and give
\* the other a new value, the deletion lying under a second layer.
C18_Witness ==
    /\ Depth = 2
    /\ DOMAIN data_ = KeySet
    /\ \E k \in KeySet : \E j \in KeySet \ {k} :
           /\ k \in DOMAIN transactions_[1] /\ transactions_[1][k] = nullopt
           /\ Get(this, k) = nullopt
           /\ has_value(Get(this, j)) /\ Get(this, j) /= Some(data_[j])

\* C19: Commit never changes the visible state.  Over a Commit at depth
\* n >= 1 the visible state after is the visible state before, so every Get
\* returns what it returned; at depth 1 the base store after the Commit is
\* the visible state before it.
C19_CommitPreservesVisible ==
    [][(CommitStep /\ Depth >= 1) =>
          LET after == [data_ |-> data_', transactions_ |-> transactions_']
          IN  /\ BuildVisibleState(after) = BuildVisibleState(this)
              /\ \A k \in KeySet : Get(after, k) = Get(this, k)
              /\ Depth = 1 => data_' = BuildVisibleState(this)]_vars

\* From an idle store holding both keys: a Set of k in one transaction, a Del
\* of k in a nested one, and both committed, the inner over the Set it
\* shadows and the outer into the base store.
C19_Witness ==
    \E k \in KeySet, v \in ValueSet :
        /\ win.live /\ win.calls = NestedCommitScript(k, v)
        /\ DOMAIN win.base = KeySet /\ win.base[k] /= v
        /\ transactions_ = <<>>
        /\ data_ = Erase(win.base, k)

\* C20: transactional and direct execution agree on commit.  From any idle
\* state, a Begin, Set and Del calls with nested Begin ... Commit pairs among
\* them, and the Commit that closes the outermost transaction leave the base
\* store that the same Set and Del calls leave when called with no
\* transaction open, and leave the diff stack empty.
C20_TransactionalEqualsDirect ==
    (direct.live /\ direct.open = 0) => (data_ = direct.data /\ transactions_ = <<>>)

\* The nested scenario from an idle store holding both keys: Set(k, v) in a
\* transaction, Del(k) in a nested one, both committed; called directly, the
\* two calls erase k.
C20_Witness ==
    \E k \in KeySet, v \in ValueSet :
        /\ win.live /\ win.calls = NestedCommitScript(k, v)
        /\ DOMAIN win.base = KeySet
        /\ direct.live /\ direct.open = 0
        /\ direct.data = Del(Set([data_ |-> win.base, transactions_ |-> <<>>], k, v), k).data_
        /\ direct.data /= win.base

==========================================================================
